---- MODULE Spec2Model ----
(***************************************************************************)
(* Model of weekly_agent.py: the WeeklyReportAgent pipeline               *)
(*   Locate (direct guess -> listing scan -> fallback list)               *)
(*   -> CheckIdempotence -> Fetch -> Extract -> Condense -> Translate      *)
(*   -> Notify -> PersistState                                             *)
(* run over an unbounded sequence of non-overlapping invocations that     *)
(* share the state file .agent_state.json (Spec, SpecCounting, SpecRetry), *)
(* and two invocations that overlap on that file (SpecOverlap).            *)
(*                                                                         *)
(* Strings that the code inspects (header values, first bytes, texts) are  *)
(* sequences of one-character strings, so that lower(), "x in s",          *)
(* startswith(), strip() and int() are computed, not assumed.              *)
(***************************************************************************)
EXTENDS Integers, Sequences, FiniteSets, TLC

\* ------------------------------------------------------------------ bounds
\* today() of the first invocation, in days since 2024-01-01 (242 = 2024-08-30).
BaseDay == 242
\* today() of an invocation lies in BaseDay .. BaseDay + MaxDayOffset.
MaxDayOffset == 0
\* The origin serves an acceptable page only for the candidates of the last
\* MaxAcceptBack days (and for the oldest candidate of the window).
MaxAcceptBack == 0
\* Number of <a href> elements of the listing page.
MaxLinks == 2
\* Distinct hrefs the listing page may carry.
MaxHref == 2

\* ------------------------------------------------------- program constants
\* range(0, 35) in _try_direct_weekly_pdf
LookbackDays == 35
\* int(content_length) > 10000 in _try_direct_weekly_pdf
MinSize == 10000
\* Config.max_pdf_mb
max_pdf_mb == 25
\* for _ in range(3) around os.remove in run()
RemoveTries == 3

\* ------------------------------------------------------------ str helpers
Digits == <<"0", "1", "2", "3", "4", "5", "6", "7", "8", "9">>

DigitVal(c) == CHOOSE i \in 0..9 : Digits[i + 1] = c

IsDigit(c) == \E i \in 1..10 : Digits[i] = c

\* int(s) raises ValueError unless s is a non-empty run of digits.
IsInt(s) == Len(s) > 0 /\ \A i \in 1..Len(s) : IsDigit(s[i])

RECURSIVE ParseInt(_)
ParseInt(s) ==
    IF Len(s) = 0 THEN 0
    ELSE 10 * ParseInt(SubSeq(s, 1, Len(s) - 1)) + DigitVal(s[Len(s)])

\* str.lower() on the characters the model uses.
LowerChar(c) ==
    CASE c = "P" -> "p"
      [] c = "D" -> "d"
      [] c = "F" -> "f"
      [] OTHER -> c

Lower(s) == [i \in 1..Len(s) |-> LowerChar(s[i])]

\* sub in s
Contains(s, sub) ==
    \E i \in 0..(Len(s) - Len(sub)) : SubSeq(s, i + 1, i + Len(sub)) = sub

\* s.startswith(p)
StartsWith(s, p) == Len(s) >= Len(p) /\ SubSeq(s, 1, Len(p)) = p

IsSpace(c) == c = " "

RECURSIVE LStrip(_)
LStrip(s) == IF Len(s) > 0 /\ IsSpace(s[1]) THEN LStrip(Tail(s)) ELSE s

RECURSIVE RStrip(_)
RStrip(s) ==
    IF Len(s) > 0 /\ IsSpace(s[Len(s)]) THEN RStrip(SubSeq(s, 1, Len(s) - 1)) ELSE s

\* Mutant: whitespace is not removed, as in "if not text:".
StripNothing(s) == s

\* str.strip()
Strip(s) == RStrip(LStrip(s))

\* ---------------------------------------------------------------- calendar
\* Dates are days since 2024-01-01 (a Monday); the model uses dates >= 0.
IsLeap(y) == (y % 4 = 0 /\ y % 100 # 0) \/ y % 400 = 0

DaysInYear(y) == IF IsLeap(y) THEN 366 ELSE 365

RECURSIVE YearAndDay(_, _)
YearAndDay(y, n) ==
    IF n < DaysInYear(y) THEN <<y, n + 1>> ELSE YearAndDay(y + 1, n - DaysInYear(y))

\* date.year and the 1-based day of the year
YearOf(d) == YearAndDay(2024, d)[1]

YDay(d) == YearAndDay(2024, d)[2]

\* date.isoweekday(): Monday = 1 .. Sunday = 7
IsoWeekday(d) == (d % 7) + 1

\* ISO weeks of the year whose 1 January is the date jan1
WeeksInYear(y, jan1) ==
    IF IsoWeekday(jan1) = 4 \/ (IsLeap(y) /\ IsoWeekday(jan1) = 3) THEN 53 ELSE 52

\* date.isocalendar()[1]
IsoWeek(d) ==
    LET y == YearOf(d)
        yd == YDay(d)
        w == (yd - IsoWeekday(d) + 10) \div 7
        jan1 == d - (yd - 1)
    IN  IF w < 1 THEN WeeksInYear(y - 1, jan1 - DaysInYear(y - 1))
        ELSE IF w > WeeksInYear(y, jan1) THEN 1
        ELSE w

\* date.isocalendar()[0]
IsoYear(d) ==
    LET y == YearOf(d)
        yd == YDay(d)
        w == (yd - IsoWeekday(d) + 10) \div 7
        jan1 == d - (yd - 1)
    IN  IF w < 1 THEN y - 1
        ELSE IF w > WeeksInYear(y, jan1) THEN y + 1
        ELSE y

\* -------------------------------------------------------------------- URLs
\* A URL is identified by what the code builds it from.  dl counts the
\* "download=1" parameters _append_download_param has appended.
NoUrl == [kind |-> "none", date |-> 0, week |-> 0, n |-> 0, dl |-> 0]

\* f"...communicable-disease-threats-report-{day}-{month}-{year}-week-{week_num}"
\* with target_date = today - days_back, week_num = current_week - days_back // 7
DirectUrl(t, db) ==
    [kind |-> "direct", date |-> t - db, week |-> IsoWeek(t) - (db \div 7),
     n |-> 0, dl |-> 0]

\* alternative_urls[i] of _try_alternative_urls (4 entries, the last one legacy)
NumAlternativeUrls == 4

AltUrl(i) == [kind |-> "alt", date |-> 0, week |-> 0, n |-> i, dl |-> 0]

\* an absolute href found on the listing page
HrefUrl(k) == [kind |-> "href", date |-> 0, week |-> 0, n |-> k, dl |-> 0]

\* _get_pdf_week_info: (year, week) from "week-(\d+)" and the first "(\d{4})"
\* of the URL, None when either is missing.
NoWeekInfo == [found |-> FALSE, year |-> 0, week |-> 0]

WeekInfo(y, w) == [found |-> TRUE, year |-> y, week |-> w]

\* alternative_urls: "...-23-29-august-2024-week-35", "...-2024-week-34",
\* "...-2024-week-33", and the legacy ".../...-report-2024-w34.pdf", which
\* holds no "week-".
AlternativeWeekInfo ==
    <<WeekInfo(2024, 35), WeekInfo(2024, 34), WeekInfo(2024, 33), NoWeekInfo>>

\* A direct URL ends in "-{year}-week-{week_num}"; a negative week_num gives
\* "week--1", which "week-(\d+)" does not match.  The hrefs of the model hold
\* no "week-".
GetPdfWeekInfo(u) ==
    CASE u.kind = "direct" ->
            IF u.week >= 0 THEN WeekInfo(YearOf(u.date), u.week) ELSE NoWeekInfo
      [] u.kind = "alt" -> AlternativeWeekInfo[u.n]
      [] OTHER -> NoWeekInfo

\* run(), lines 535-547: the warning "PDF puede estar desactualizado" is logged
\* when the week found is neither the current ISO week nor the one before.
StaleWarning(u, t) ==
    LET info == GetPdfWeekInfo(u)
    IN  /\ info.found
        /\ ~(info.year = IsoYear(t) /\ info.week = IsoWeek(t))
        /\ ~(info.year = IsoYear(t) /\ info.week = IsoWeek(t) - 1)

\* url + ("&download=1" if "?" in url else "?download=1")
AppendDownloadParam(u) == [u EXCEPT !.dl = @ + 1]

\* ---------------------------------------------------------- HTTP responses
Header(v) == [present |-> TRUE, v |-> v]

Missing == [present |-> FALSE, v |-> <<>>]

\* response.headers.get(name, default)
HeaderGet(h, default) == IF h.present THEN h.v ELSE default

AppPdf == <<"a", "p", "p", "l", "i", "c", "a", "t", "i", "o", "n", "/", "p", "d", "f">>

AppPdfUpper == <<"a", "p", "p", "l", "i", "c", "a", "t", "i", "o", "n", "/", "P", "D", "F">>

TextHtml == <<"t", "e", "x", "t", "/", "h", "t", "m", "l">>

TextPlain == <<"t", "e", "x", "t", "/", "p", "l", "a", "i", "n">>

ContentTypes == {Missing, Header(AppPdf), Header(AppPdfUpper), Header(TextHtml), Header(TextPlain)}

\* Content-Length values: absent, empty, no number, and sizes on both sides
\* of the two thresholds the code compares with (10000, 25 * 1024 * 1024).
BadLengths == {Header(<<>>), Header(<<"a", "b", "c">>)}

SmallLengths ==
    { Header(<<"0">>), Header(<<"5", "1", "2">>),
      Header(<<"1", "0", "0", "0", "0">>), Header(<<"1", "0", "0", "0", "1">>) }

LargeLengths ==
    { Header(<<"5", "0", "0", "0", "0">>),
      Header(<<"2", "6", "2", "1", "4", "4", "0", "0">>),
      Header(<<"2", "6", "2", "1", "4", "4", "0", "1">>) }

ContentLengths == {Missing} \cup BadLengths \cup SmallLengths \cup LargeLengths

\* A HEAD exchange: a RequestException (net = FALSE) or a response.
NetFailure == [net |-> FALSE, status |-> 0, ctype |-> Missing, clen |-> Missing]

HeadResponses ==
    {NetFailure} \cup
    [net : {TRUE}, status : {200, 404}, ctype : ContentTypes, clen : ContentLengths]

\* The answers to the HEAD of download_pdf, which reads Content-Length only.
SizeResponses ==
    {NetFailure} \cup
    {r \in HeadResponses :
        r.status = 200 /\ r.ctype = Missing /\ r.clen \notin SmallLengths}

\* What the HEAD of a direct-guess candidate showed: a RequestException, or
\* the status, whether the declared type is of the page or document family,
\* and the declared size.
NoHead == [net |-> FALSE, status |-> -1, family |-> FALSE, clen |-> Missing]

DirectObserved(r) ==
    IF ~r.net THEN [net |-> FALSE, status |-> 0, family |-> FALSE, clen |-> Missing]
    ELSE [net |-> TRUE, status |-> r.status,
          family |-> \/ Contains(Lower(HeaderGet(r.ctype, <<>>)), <<"h", "t", "m", "l">>)
                     \/ Contains(Lower(HeaderGet(r.ctype, <<>>)), <<"p", "d", "f">>),
          clen |-> r.clen]

\* No HEAD of download_pdf has been made.
NoProbe == [kind |-> "none", size |-> 0]

\* first chunk of a streamed body
PdfBytes == <<"%", "P", "D", "F", "-">>

HtmlBytes == <<"<", "h", "t", "m", "l">>

FirstChunks == {<<>>, PdfBytes, HtmlBytes, <<"%", "P", "D">>, <<" ", "%", "P", "D", "F">>}

\* A GET exchange of _try_get: a RequestException (also raise_for_status) or a body.
GetFailure == [net |-> FALSE, ctype |-> Missing, first |-> <<>>]

GetResponses ==
    {GetFailure} \cup [net : {TRUE}, ctype : ContentTypes, first : FirstChunks]

\* ------------------------------------------------------------------- texts
\* extract_text results
Texts == {<<>>, <<" ">>, <<" ", "a">>}

\* LexRank summaries
Summaries == {<<>>, <<" ">>, <<"a">>}

\* GoogleTranslator.translate results: a string, None, or an exception;
\* "unavailable" is GoogleTranslator is None (the import failed).
TranslatorOutcomes ==
    [kind : {"str"}, v : {<<"b">>, <<>>}] \cup
    {[kind |-> "none", v |-> <<>>], [kind |-> "raise", v |-> <<>>],
     [kind |-> "unavailable", v |-> <<>>]}

\* -------------------------------------------------------------- state file
\* .agent_state.json: absent, unreadable as JSON, or {"last_url": url, ...}
NoFile == [st |-> "absent", url |-> NoUrl]

CorruptFile == [st |-> "corrupt", url |-> NoUrl]

StateWith(u) == [st |-> "ok", url |-> u]

\* Mutant: the reader asks for a key the writer never stores.
GetLastProcessedUrlWrongKey(f) == NoUrl

\* _get_last_processed_url: data.get('last_url'), None when the file is absent
\* or json.load raises
GetLastProcessedUrl(f) == IF f.st = "ok" THEN f.url ELSE NoUrl

\* Mutant: an existing state file is kept instead of overwritten.
SaveProcessedUrlKeepsFirst(f, u, outcome) ==
    IF f.st = "ok" THEN f
    ELSE IF outcome = "ok" THEN [st |-> "ok", url |-> u]
    ELSE f

\* _save_processed_url: open(state_file, 'w') and json.dump; every exception is
\* swallowed.  "ok": written; "open-failed": the file is left as it was;
\* "dump-failed": the file was truncated by open() and holds no JSON document.
WriteOutcomes == {"ok", "open-failed", "dump-failed"}

\* The outcomes the environment allows.
PossibleWrites(faults) == IF faults THEN WriteOutcomes ELSE {"ok"}

SaveProcessedUrl(f, u, outcome) ==
    CASE outcome = "ok" -> StateWith(u)
      [] outcome = "open-failed" -> f
      [] OTHER -> CorruptFile

\* =================================================================== state
VARIABLES
    state_file,       \* content of .agent_state.json
    store_faults,     \* the environment may fail writes of the state file
    counted,          \* the URL whose deliveries are counted (NoUrl: none is)
    count,            \* mails for counted the SMTP server accepted (2: two or more)
    retry_watch,      \* the URL of an invocation whose Notify failed is remembered
    today,            \* dt.date.today() of the current invocation
    configured,       \* which of smtp_server, sender_email, receiver_email are set
    smtp_ok,          \* all([smtp_server, sender_email, receiver_email]) of run()
    dry_run,          \* Config.dry_run
    run_start_state,  \* state_file when the current invocation started
    pc,               \* position of the current invocation in run()
    status,           \* how the last invocation ended
    stages,           \* stages the current invocation has entered
    strategies,       \* locator strategies called, and whether each found a URL
    days_back,        \* loop variable of _try_direct_weekly_pdf (0 outside it)
    probes,           \* HEAD requests _try_direct_weekly_pdf has issued
    link_idx,         \* links of the listing page visited so far
    candidates,       \* candidates list of _scan_listing_page: <<date, url>>, kept
                      \* until run() has looked at what the Locator returned
    alt_idx,          \* index into alternative_urls
    direct_seen,      \* what the latest HEAD of _try_direct_weekly_pdf showed
    link_seen,        \* how the latest link of the listing page fared
    pdf_url,          \* the located URL
    probe,            \* what the HEAD of download_pdf reported (until its first GET)
    gets,             \* URLs that call has requested with GET
    attempts,         \* per GET of that call: what the exchange showed
    wrote,            \* download_pdf has written a body to the scratch file
    tmp_exists,       \* the scratch file exists
    rm_tries,         \* os.remove attempts made
    text,             \* extracted text
    summary_en,       \* condensed text
    summary_es,       \* translated text
    translator,       \* what the Translator did in this invocation
    notify_calls,     \* send_email calls of the current invocation
    notify_body,      \* plain body passed to send_email
    sent,             \* send_email returned normally in this invocation
    write_result,     \* outcome of _save_processed_url in this invocation
    retry_url,        \* the URL of the previous invocation if its Notify failed
    warned,           \* a record of level WARNING or above was logged
    o_pc,             \* overlapping invocations: position of each in run()
    o_status,         \* overlapping invocations: how each ended
    o_url,            \* overlapping invocations: pdf_url of each
    o_last_url,       \* overlapping invocations: last_url as each read it
    o_early,          \* overlapping invocations: each read the state file before
                      \* any of them opened it for writing
    o_sent,           \* overlapping invocations: send_email of each returned normally
    written           \* an overlapping invocation has opened the state file for writing

persistent == <<state_file, store_faults, counted, count, retry_watch>>

config == <<today, configured, smtp_ok, dry_run, run_start_state>>

locator == <<strategies, days_back, probes, link_idx, candidates, alt_idx>>

fetcher == <<probe, gets, attempts, wrote>>

scratch == <<tmp_exists, rm_tries>>

texts == <<text, summary_en, summary_es, translator>>

notifier == <<notify_calls, notify_body, sent, write_result>>

seen == <<direct_seen, link_seen>>

journal == <<retry_url, warned>>

overlap == <<o_pc, o_status, o_url, o_last_url, o_early, o_sent, written>>

vars ==
    <<persistent, config, pc, status, stages, locator, pdf_url, fetcher, scratch,
      texts, notifier, seen, journal, overlap>>

\* Locals of run() before its first statement.
FreshRun ==
    /\ days_back' = 0
    /\ probes' = 0
    /\ link_idx' = 0
    /\ candidates' = <<>>
    /\ alt_idx' = 0
    /\ direct_seen' = NoHead
    /\ link_seen' = "none"
    /\ pdf_url' = NoUrl
    /\ probe' = NoProbe
    /\ gets' = <<>>
    /\ attempts' = <<>>
    /\ wrote' = FALSE
    /\ tmp_exists' = FALSE
    /\ rm_tries' = 0
    /\ text' = <<>>
    /\ summary_en' = <<>>
    /\ summary_es' = <<>>
    /\ translator' = "idle"
    /\ notify_calls' = 0
    /\ notify_body' = <<>>
    /\ sent' = FALSE
    /\ write_result' = "none"

\* Two invocations of run() started so that they overlap (a double trigger).
Invocations == {1, 2}

\* No overlapping invocation has started.
NoOverlap ==
    /\ o_pc = [i \in Invocations |-> "idle"]
    /\ o_status = [i \in Invocations |-> "none"]
    /\ o_url = [i \in Invocations |-> NoUrl]
    /\ o_last_url = [i \in Invocations |-> NoUrl]
    /\ o_early = [i \in Invocations |-> FALSE]
    /\ o_sent = [i \in Invocations |-> FALSE]
    /\ written = FALSE

\* Config: SMTP_SERVER, SENDER_EMAIL and RECEIVER_EMAIL, each set or empty.
Settings == [smtp_server : BOOLEAN, sender_email : BOOLEAN, receiver_email : BOOLEAN]

\* Mutant: only the server is looked at.
ConfigCompleteServerOnly(c) == c.smtp_server

\* all([self.config.smtp_server, self.config.sender_email,
\*      self.config.receiver_email])
ConfigComplete(c) == c.smtp_server /\ c.sender_email /\ c.receiver_email

\* Before the first invocation: no state file.
FirstStart ==
    /\ NoOverlap
    /\ configured = [smtp_server |-> TRUE, sender_email |-> TRUE, receiver_email |-> TRUE]
    /\ state_file = NoFile
    /\ count = 0
    /\ today = BaseDay
    /\ smtp_ok = TRUE
    /\ dry_run = FALSE
    /\ run_start_state = NoFile
    /\ pc = "idle"
    /\ status = "none"
    /\ stages = <<>>
    /\ strategies = <<>>
    /\ days_back = 0
    /\ probes = 0
    /\ link_idx = 0
    /\ candidates = <<>>
    /\ alt_idx = 0
    /\ direct_seen = NoHead
    /\ link_seen = "none"
    /\ pdf_url = NoUrl
    /\ probe = NoProbe
    /\ gets = <<>>
    /\ attempts = <<>>
    /\ wrote = FALSE
    /\ tmp_exists = FALSE
    /\ rm_tries = 0
    /\ text = <<>>
    /\ summary_en = <<>>
    /\ summary_es = <<>>
    /\ translator = "idle"
    /\ notify_calls = 0
    /\ notify_body = <<>>
    /\ sent = FALSE
    /\ write_result = "none"
    /\ retry_url = NoUrl
    /\ warned = FALSE

Init == FirstStart /\ store_faults = TRUE /\ counted = NoUrl /\ retry_watch = FALSE

\* run() returns (or an exception leaves it) with the given status.
Finish(s) == pc' = "done" /\ status' = s

\* ================================================================== run()
\* run(), lines 510-528: the configuration check, then Locate begins.
\* Each invocation is a new process: the environment sets the configuration
\* and the date, and time does not run backwards.
StartRun ==
    /\ pc \in {"idle", "done"}
    /\ \E t \in today..(BaseDay + MaxDayOffset) : today' = t
    /\ configured' \in Settings
    /\ smtp_ok' = ConfigComplete(configured')
    /\ dry_run' \in BOOLEAN
    /\ run_start_state' = state_file
    /\ retry_url' = (IF retry_watch /\ status = "notify-failed" THEN pdf_url ELSE NoUrl)
    /\ warned' = ~smtp_ok'
    /\ FreshRun
    /\ IF ~smtp_ok'
       THEN /\ Finish("config-missing")
            /\ stages' = <<>>
            /\ strategies' = <<>>
       ELSE /\ pc' = "direct"
            /\ status' = "running"
            /\ stages' = <<"Locate">>
            /\ strategies' = <<[s |-> "direct", found |-> FALSE]>>
    /\ UNCHANGED <<overlap, persistent>>

\* ------------------------------------------------ Locator: the cascade
\* Mutant: the result of the direct guess is not returned at once.
FetchLatestPdfUrlNoShortCircuit(strategy, url) ==
    IF strategy = "direct" THEN "listing"
    ELSE IF url # NoUrl THEN "located"
    ELSE IF strategy = "listing" THEN "alt"
    ELSE "none"

\* fetch_latest_pdf_url: what follows a strategy that returned url
\* ("if url: return url", else the next strategy, else None).
FetchLatestPdfUrl(strategy, url) ==
    IF url # NoUrl THEN "located"
    ELSE CASE strategy = "direct" -> "listing"
           [] strategy = "listing" -> "alt"
           [] OTHER -> "none"

\* The record of a strategy being called; found is set when it returns.
Called(strategy) == [s |-> strategy, found |-> FALSE]

\* A strategy returns url (NoUrl for None) to fetch_latest_pdf_url, which
\* returns to run(): "if not pdf_url: return".
Return(strategy, url) ==
    LET nxt == FetchLatestPdfUrl(strategy, url)
    IN  /\ pdf_url' = IF nxt = "located" THEN url ELSE pdf_url
        /\ strategies' =
              LET returned == [strategies EXCEPT ![Len(strategies)].found = (url # NoUrl)]
              IN  IF nxt \in {"listing", "alt"} THEN Append(returned, Called(nxt))
                  ELSE returned
        /\ IF nxt = "none"
           THEN Finish("no-document-found")
           ELSE pc' = nxt /\ status' = status

\* ---------------------------------------- Locator: _try_direct_weekly_pdf
\* The origin's answers to the HEAD of the candidate days_back days ago.
Served(db) == db <= MaxAcceptBack \/ db = LookbackDays - 1

\* Where nothing is served the request fails or is answered 404, with or
\* without the headers of a document.
NotServedResponses ==
    { NetFailure,
      [net |-> TRUE, status |-> 404, ctype |-> Missing, clen |-> Missing],
      [net |-> TRUE, status |-> 404, ctype |-> Header(AppPdf),
       clen |-> Header(<<"5", "0", "0", "0", "0">>)] }

DirectResponses(db) == IF Served(db) THEN HeadResponses ELSE NotServedResponses

DirectContentType(r) == Lower(HeaderGet(r.ctype, <<>>))

DirectContentLength(r) == HeaderGet(r.clen, <<"0">>)

DirectTypeOk(r) ==
    \/ Contains(DirectContentType(r), <<"h", "t", "m", "l">>)
    \/ Contains(DirectContentType(r), <<"p", "d", "f">>)

\* int(content_length) is evaluated only when the two tests before it hold,
\* and raises ValueError, which "except requests.RequestException" lets pass.
DirectRaises(r) ==
    r.status = 200 /\ DirectTypeOk(r) /\ ~IsInt(DirectContentLength(r))

\* Mutant: the declared size is not consulted.
DirectAcceptsAnySize(r) == r.status = 200 /\ DirectTypeOk(r)

DirectAccepts(r) ==
    /\ r.status = 200
    /\ DirectTypeOk(r)
    /\ IsInt(DirectContentLength(r))
    /\ ParseInt(DirectContentLength(r)) > MinSize

\* Mutant: the loop runs one candidate too far.
InWindowInclusive(db) == db <= LookbackDays

\* days_back in range(0, 35)
InWindow(db) == db < LookbackDays

\* What the loop body makes of each answer: what the HEAD showed, whether
\* int() raises, whether the candidate is accepted.
DirectOutcomes(responses) ==
    { [seen |-> DirectObserved(r),
       raises |-> r.net /\ DirectRaises(r),
       accepts |-> r.net /\ DirectAccepts(r)] : r \in responses }

ServedOutcomes == DirectOutcomes(HeadResponses)

NotServedOutcomes == DirectOutcomes(NotServedResponses)

\* DirectOutcomes(DirectResponses(db))
DirectOutcomesAt(db) == IF Served(db) THEN ServedOutcomes ELSE NotServedOutcomes

\* One iteration of "for days_back in range(0, 35)".
DirectProbe ==
    /\ pc = "direct"
    /\ probes' = probes + 1
    /\ \E o \in DirectOutcomesAt(days_back) :
         /\ direct_seen' = o.seen
         /\ IF o.raises
            THEN /\ Finish("locator-raised")
                 /\ UNCHANGED <<pdf_url, strategies, days_back>>
            ELSE IF o.accepts
            THEN /\ Return("direct", DirectUrl(today, days_back))
                 /\ days_back' = 0
            ELSE IF InWindow(days_back + 1)
            THEN /\ days_back' = days_back + 1
                 /\ UNCHANGED <<pc, status, pdf_url, strategies>>
            ELSE /\ days_back' = 0
                 /\ Return("direct", NoUrl)
    /\ UNCHANGED <<overlap, persistent, config, stages, link_idx, candidates, alt_idx,
                   fetcher,
                   scratch, texts, notifier, link_seen, journal>>

\* -------------------------------------------- Locator: _scan_listing_page
\* session.get(base_url) and raise_for_status(): on a RequestException the
\* strategy returns None.
LoadListing ==
    /\ pc = "listing"
    /\ \E loaded \in BOOLEAN :
         /\ warned' = (warned \/ ~loaded)
         /\ IF loaded
            THEN pc' = "links" /\ UNCHANGED <<status, pdf_url, strategies>>
            ELSE Return("listing", NoUrl)
    /\ direct_seen' = NoHead
    /\ UNCHANGED <<overlap, persistent, config, stages, days_back, probes, link_idx, candidates,
                   alt_idx, fetcher, scratch, texts, notifier, link_seen, retry_url>>

\* The date "(\d{1,2})\s+([a-z]+)\s+(\d{4})" finds in a link text.
NoDate == [found |-> FALSE, day |-> 0, month |-> "", year |-> 0]

\* Link texts: without a date, with one of two dates of August 2024, with a
\* day the month does not have, and with a month name the dict does not hold.
LinkDates ==
    {NoDate} \cup
    [found : {TRUE}, day : {1, 2}, month : {"august"}, year : {2024}] \cup
    {[found |-> TRUE, day |-> 31, month |-> "june", year |-> 2024],
     [found |-> TRUE, day |-> 1, month |-> "agosto", year |-> 2024]}

\* series: the text holds "communicable disease threats report" and "week".
Links == [href : 1..MaxHref, series : BOOLEAN, date : LinkDates]

MonthNames ==
    <<"january", "february", "march", "april", "may", "june", "july", "august",
      "september", "october", "november", "december">>

\* the months dict of _scan_listing_page; 0 for "month_str not in months"
MonthNumber(m) ==
    IF \E i \in 1..12 : MonthNames[i] = m
    THEN CHOOSE i \in 1..12 : MonthNames[i] = m
    ELSE 0

DaysInMonth(y, m) ==
    IF m = 2 THEN (IF IsLeap(y) THEN 29 ELSE 28)
    ELSE IF m \in {4, 6, 9, 11} THEN 30 ELSE 31

\* dt.datetime(year, month, day) does not raise ValueError
ValidDate(d) ==
    /\ d.found
    /\ MonthNumber(d.month) # 0
    /\ d.day >= 1
    /\ d.day <= DaysInMonth(d.year, MonthNumber(d.month))

\* datetimes compare as (year, month, day)
DateKey(d) == d.year * 10000 + MonthNumber(d.month) * 100 + d.day

\* The HEAD of a link or of an alternative URL: only the status is read.
StatusResponses == {r \in HeadResponses : r.ctype = Missing /\ r.clen = Missing}

\* How a link fared, in the order of the tests of the loop body: its text is
\* not of the series, its HEAD failed or was not 200, its text holds no date
\* that dt.datetime accepts, or it is a candidate.
LinkSeen(link, r) ==
    IF ~link.series THEN "not-series"
    ELSE IF ~r.net \/ r.status # 200 THEN "head-failed"
    ELSE IF ~link.date.found
            \/ ~(\E i \in 1..12 : MonthNames[i] = link.date.month)
            \/ link.date.day < 1
            \/ link.date.day > DaysInMonth(link.date.year, MonthNumber(link.date.month))
    THEN "no-date"
    ELSE "candidate"

\* What the loop body makes of each link and each answer to its HEAD: how
\* the link fared, and the (date, url) appended to candidates.
LinkOutcomes ==
    { [seen |-> LinkSeen(link, r),
       appended |-> link.series /\ r.net /\ r.status = 200 /\ ValidDate(link.date),
       candidate |->
           IF link.series /\ r.net /\ r.status = 200 /\ ValidDate(link.date)
           THEN <<DateKey(link.date), HrefUrl(link.href)>>
           ELSE <<>>]
        : link \in Links, r \in StatusResponses }

\* One iteration of "for link in soup.find_all('a', href=True)".
ScanLink ==
    /\ pc = "links"
    /\ link_idx < MaxLinks
    /\ link_idx' = link_idx + 1
    /\ \E o \in LinkOutcomes :
         /\ link_seen' = o.seen
         /\ candidates' = IF o.appended THEN Append(candidates, o.candidate)
                          ELSE candidates
    /\ UNCHANGED <<overlap, persistent, config, pc, status, stages, strategies, days_back, probes,
                   alt_idx, pdf_url, fetcher, scratch, texts, notifier, direct_seen,
                   journal>>

\* Mutant: an element goes before the elements of the same date.
InsertDescBeforeEqual(s, c) ==
    LET older == {i \in 1..Len(s) : s[i][1] <= c[1]}
        k == IF older = {} THEN Len(s) + 1 ELSE CHOOSE i \in older : \A j \in older : i <= j
    IN  SubSeq(s, 1, k - 1) \o <<c>> \o SubSeq(s, k, Len(s))

\* list.sort(key = date, reverse = True) is stable: among equal dates the
\* earlier element stays first.
RECURSIVE InsertDesc(_, _)
InsertDesc(s, c) ==
    IF s = <<>> THEN <<c>>
    ELSE IF Head(s)[1] >= c[1] THEN <<Head(s)>> \o InsertDesc(Tail(s), c)
    ELSE <<c>> \o s

RECURSIVE SortDesc(_)
SortDesc(s) ==
    IF s = <<>> THEN <<>>
    ELSE InsertDesc(SortDesc(SubSeq(s, 1, Len(s) - 1)), s[Len(s)])

\* Mutant: the list is not sorted before its first element is taken.
BestUrlUnsorted(cands) == cands[1][2]

\* "best_date, best_url = candidates[0]" after the sort
BestUrl(cands) == SortDesc(cands)[1][2]

\* The loop over the links ends: no candidate -> None, else the best one.
ScanResult ==
    /\ pc = "links"
    /\ Return("listing", IF candidates = <<>> THEN NoUrl ELSE BestUrl(candidates))
    /\ link_idx' = 0
    /\ link_seen' = "none"
    /\ UNCHANGED <<overlap, persistent, config, stages, days_back, probes, candidates, alt_idx,
                   fetcher, scratch, texts, notifier, direct_seen, journal>>

\* ----------------------------------------- Locator: _try_alternative_urls
\* One iteration of "for url in alternative_urls".
AltProbe ==
    /\ pc = "alt"
    /\ \E r \in StatusResponses :
         IF r.net /\ r.status = 200
         THEN Return("alt", AltUrl(alt_idx + 1)) /\ alt_idx' = 0
         ELSE IF alt_idx + 1 < NumAlternativeUrls
         THEN alt_idx' = alt_idx + 1 /\ UNCHANGED <<pc, status, pdf_url, strategies>>
         ELSE Return("alt", NoUrl) /\ alt_idx' = 0
    /\ UNCHANGED <<overlap, persistent, config, stages, days_back, probes, link_idx, candidates,
                   fetcher, scratch, texts, notifier, seen, journal>>

\* ------------------------------------------------------ CheckIdempotence
\* Mutant: any stored URL counts as this URL, as in "if last_url:".
AlreadyProcessedAnyStored(last_url, url) == last_url # NoUrl

\* "if last_url == pdf_url"
AlreadyProcessed(last_url, url) == last_url = url

\* run(), lines 533-562: the week of the URL is compared with today's, the
\* state file is read and compared; a new URL gets its scratch file
\* (NamedTemporaryFile(delete=False), created empty).
CheckIdempotence ==
    /\ pc = "located"
    /\ stages' = Append(stages, "CheckIdempotence")
    /\ warned' = (warned \/ StaleWarning(pdf_url, today))
    /\ IF AlreadyProcessed(GetLastProcessedUrl(state_file), pdf_url)
       THEN Finish("already-processed") /\ UNCHANGED tmp_exists
       ELSE pc' = "fetch_head" /\ tmp_exists' = TRUE /\ UNCHANGED status
    /\ direct_seen' = NoHead
    /\ candidates' = <<>>
    /\ UNCHANGED <<overlap, persistent, config, strategies, days_back, probes, link_idx, alt_idx,
                   pdf_url, fetcher, rm_tries, texts, notifier, link_seen, retry_url>>

\* ------------------------------------------------- Fetcher: download_pdf
MaxBytes == max_pdf_mb * 1024 * 1024

\* What the HEAD of download_pdf reported: a RequestException, no
\* Content-Length, one that is no number, or the declared size.
ProbeReport(r) ==
    IF ~r.net THEN [kind |-> "net-failure", size |-> 0]
    ELSE IF ~r.clen.present THEN [kind |-> "no-size", size |-> 0]
    ELSE IF ~IsInt(r.clen.v) THEN [kind |-> "not-a-number", size |-> 0]
    ELSE [kind |-> "size", size |-> ParseInt(r.clen.v)]

\* Mutant: the declared size is parsed but not compared with the limit.
ProbeResultNoLimit(r) ==
    IF ~r.net THEN "pass"
    ELSE IF ~r.clen.present \/ r.clen.v = <<>> THEN "pass"
    ELSE IF ~IsInt(r.clen.v) THEN "bad-length"
    ELSE "pass"

\* Step 1 of download_pdf:
\*   if content_length and int(content_length) > max_mb * 1024 * 1024: raise
\* "pass" (go on to the GET; a RequestException is passed over), "too-large"
\* (RuntimeError), "bad-length" (int() raises ValueError on a non-empty value).
ProbeResult(r) ==
    IF ~r.net THEN "pass"
    ELSE IF ~r.clen.present \/ r.clen.v = <<>> THEN "pass"
    ELSE IF ~IsInt(r.clen.v) THEN "bad-length"
    ELSE IF ParseInt(r.clen.v) > MaxBytes THEN "too-large"
    ELSE "pass"

\* download_pdf raised: run() logs it and returns through the finally block.
FetchFailed == pc' = "cleanup" /\ status' = "fetch-failed"

FetchHead ==
    /\ pc = "fetch_head"
    /\ stages' = Append(stages, "Fetch")
    /\ \E r \in SizeResponses :
         /\ probe' = ProbeReport(r)
         /\ IF ProbeResult(r) \in {"too-large", "bad-length"}
            THEN FetchFailed /\ warned' = TRUE
            ELSE pc' = "get1" /\ UNCHANGED <<status, warned>>
    /\ UNCHANGED <<overlap, persistent, config, locator, pdf_url, gets, attempts, wrote, scratch,
                   texts, notifier, seen, retry_url>>

\* ("pdf" in (content_type or "").lower()) and first.startswith(b"%PDF")
LooksLikePdf(first) == StartsWith(first, <<"%", "P", "D", "F">>)

\* Mutant: the declared content type alone decides.
ValidatesTypeOnly(g) == Contains(Lower(HeaderGet(g.ctype, <<>>)), <<"p", "d", "f">>)

Validates(g) ==
    /\ Contains(Lower(HeaderGet(g.ctype, <<>>)), <<"p", "d", "f">>)
    /\ LooksLikePdf(g.first)

\* What one _try_get and the validation after it come to.
AttemptResult(g) ==
    IF ~g.net THEN "net-failure" ELSE IF Validates(g) THEN "valid" ELSE "invalid"

\* What a GET exchange showed: was there a response, did it declare a PDF,
\* did its first bytes carry the signature.
Observed(g) ==
    [net |-> g.net,
     declared |-> g.net /\ Contains(Lower(HeaderGet(g.ctype, <<>>)), <<"p", "d", "f">>),
     magic |-> g.net /\ StartsWith(g.first, <<"%", "P", "D", "F">>)]

\* What download_pdf makes of each answer to a GET: what the exchange showed
\* and what the attempt comes to.
GetOutcomes ==
    {[observed |-> Observed(g), result |-> AttemptResult(g)] : g \in GetResponses}

\* Mutant: a RequestException of the first GET ends the fetch.
AfterFirstAttemptNetTerminal(res) ==
    IF res = "valid" THEN "extract" ELSE IF res = "net-failure" THEN "cleanup" ELSE "get2"

\* After the first attempt: return, or go on to the ?download=1 attempt (after
\* a failed validation, and also after a RequestException, which is caught).
AfterFirstAttempt(res) == IF res = "valid" THEN "extract" ELSE "get2"

\* Step 2 of download_pdf: _try_get(pdf_url) writes the body to dest_path.
FetchGet1 ==
    /\ pc = "get1"
    /\ gets' = Append(gets, pdf_url)
    /\ probe' = NoProbe
    /\ \E o \in GetOutcomes :
         /\ attempts' = Append(attempts, o.observed)
         /\ wrote' = (wrote \/ o.observed.net)
         /\ pc' = AfterFirstAttempt(o.result)
    /\ retry_url' = NoUrl
    /\ UNCHANGED <<overlap, persistent, config, status, stages, locator, pdf_url, scratch, texts,
                   notifier, seen, warned>>

\* Steps 3 and 4 of download_pdf: the attempt on retry_url; an exception of
\* _try_get and the final RuntimeError both leave download_pdf.
FetchGet2 ==
    /\ pc = "get2"
    /\ gets' = Append(gets, AppendDownloadParam(pdf_url))
    /\ \E o \in GetOutcomes :
         /\ attempts' = Append(attempts, o.observed)
         /\ wrote' = (wrote \/ o.observed.net)
         /\ IF o.result = "valid"
            THEN pc' = "extract" /\ UNCHANGED <<status, warned>>
            ELSE FetchFailed /\ warned' = TRUE
    /\ UNCHANGED <<overlap, persistent, config, stages, locator, pdf_url, probe, scratch, texts,
                   notifier, seen, retry_url>>

\* ----------------------------------------------------------------- Extract
\* extract_text(tmp_path) or "": every failure of both engines yields "";
\* a failure of pdfplumber is logged as a warning and pdfminer takes over.
Extract ==
    /\ pc = "extract"
    /\ stages' = Append(stages, "Extract")
    /\ text' \in Texts
    /\ \E plumber_failed \in BOOLEAN : warned' = (warned \/ plumber_failed)
    /\ pc' = "cleanup"
    /\ gets' = <<>>
    /\ attempts' = <<>>
    /\ UNCHANGED <<overlap, persistent, config, status, locator, pdf_url, probe, wrote, scratch,
                   summary_en, summary_es, translator, notifier, seen, retry_url>>

\* The finally block: one os.remove attempt of "for _ in range(3)"; the loop
\* ends at the first success or after the third failure.
\* Mutant: the loop gives up after the first attempt.
RemoveLoopEndsAtOnce(removed, tries) == TRUE

\* "break" after a successful os.remove, or range(3) is used up.
RemoveLoopEnds(removed, tries) == removed \/ tries = RemoveTries

RemoveScratch ==
    /\ pc = "cleanup"
    /\ rm_tries' = rm_tries + 1
    /\ \E removed \in BOOLEAN :
         /\ tmp_exists' = ~removed
         /\ IF RemoveLoopEnds(removed, rm_tries + 1)
            THEN IF status = "fetch-failed"
                 THEN Finish("fetch-failed")
                 ELSE pc' = "check_text" /\ UNCHANGED status
            ELSE UNCHANGED <<pc, status>>
    /\ retry_url' = NoUrl
    /\ UNCHANGED <<overlap, persistent, config, stages, locator, pdf_url, fetcher, texts,
                   notifier, seen, warned>>

\* "if not text.strip(): ... return"
CheckExtracted ==
    /\ pc = "check_text"
    /\ IF Strip(text) = <<>>
       THEN Finish("extraction-empty") /\ warned' = TRUE
       ELSE pc' = "condense" /\ UNCHANGED <<status, warned>>
    /\ UNCHANGED <<overlap, persistent, config, stages, locator, pdf_url, fetcher, scratch,
                   texts, notifier, seen, retry_url>>

\* ---------------------------------------------------------------- Condense
\* summarize(text, n): "" for blank text, else what LexRank returns.
Summarize(t, lexrank) == IF Strip(t) = <<>> THEN <<>> ELSE lexrank

Condense ==
    /\ pc = "condense"
    /\ stages' = Append(stages, "Condense")
    /\ \/ /\ Finish("condense-failed")
          /\ warned' = TRUE
          /\ UNCHANGED summary_en
       \/ \E s \in Summaries :
            /\ summary_en' = Summarize(text, s)
            /\ IF Strip(summary_en') = <<>>
               THEN Finish("condensation-empty") /\ warned' = TRUE
               ELSE pc' = "translate" /\ UNCHANGED <<status, warned>>
    /\ UNCHANGED <<overlap, persistent, config, locator, pdf_url, fetcher, scratch, text,
                   summary_es, translator, notifier, seen, retry_url>>

\* --------------------------------------------------------------- Translate
\* translate_to_spanish(text): its return value, None marked by kind.
Str(v) == [kind |-> "str", v |-> v]

\* Mutant: a failing Translator yields "" instead of the input.
TranslateToSpanishEmptyOnFailure(t, o) ==
    IF Strip(t) = <<>> THEN Str(t)
    ELSE IF o.kind \in {"unavailable", "raise"} THEN Str(<<>>)
    ELSE IF o.kind = "none" THEN [kind |-> "none", v |-> <<>>]
    ELSE Str(o.v)

TranslateToSpanish(t, o) ==
    IF Strip(t) = <<>> THEN Str(t)
    ELSE IF o.kind = "unavailable" THEN Str(t)
    ELSE IF o.kind = "raise" THEN Str(t)
    ELSE IF o.kind = "none" THEN [kind |-> "none", v |-> <<>>]
    ELSE Str(o.v)

\* run(), lines 610-616: len(None) raises inside the try, and the handler
\* substitutes summary_en.
TranslateStage(t, o) ==
    LET r == TranslateToSpanish(t, o)
    IN  IF r.kind = "none" THEN t ELSE r.v

Translate ==
    /\ pc = "translate"
    /\ stages' = Append(stages, "Translate")
    /\ \E o \in TranslatorOutcomes :
         /\ translator' = o.kind
         /\ summary_es' = TranslateStage(summary_en, o)
         /\ warned' = (warned \/ o.kind \in {"raise", "none"})
    /\ pc' = "gate"
    /\ UNCHANGED <<overlap, persistent, config, status, locator, pdf_url, fetcher, scratch,
                   text, summary_en, notifier, seen, retry_url>>

\* Mutant: the flag is not consulted.
SkipsNotifyNever(flag) == FALSE

\* "if self.config.dry_run: return"
SkipsNotify(flag) == flag

DryRunCheck ==
    /\ pc = "gate"
    /\ IF SkipsNotify(dry_run)
       THEN Finish("dry-run")
       ELSE pc' = "notify" /\ UNCHANGED status
    /\ UNCHANGED <<overlap, persistent, config, stages, locator, pdf_url, fetcher, scratch,
                   texts, notifier, seen, journal>>

\* ------------------------------------------------------------------ Notify
\* send_email(subject, summary_es, html): the SMTP exchange succeeds or
\* raises; the handler of run() logs the failure and run() ends.
\* Mutant: the state is saved whether or not send_email raised.
AfterNotifyAlwaysPersist(delivered) == "persist"

AfterNotify(delivered) == IF delivered THEN "persist" ELSE "done"

Notify ==
    /\ pc = "notify"
    /\ stages' = Append(stages, "Notify")
    /\ notify_calls' = notify_calls + 1
    /\ notify_body' = summary_es
    /\ sent' \in BOOLEAN
    /\ count' = IF sent' /\ pdf_url = counted /\ count < 2 THEN count + 1 ELSE count
    /\ pc' = AfterNotify(sent')
    /\ status' = IF pc' = "done" THEN "notify-failed" ELSE status
    /\ warned' = (warned \/ ~sent')
    /\ UNCHANGED <<overlap, state_file, store_faults, counted, retry_watch, config,
                   locator,
                   pdf_url, fetcher, scratch, texts, write_result, seen, retry_url>>

\* ------------------------------------------------------------ PersistState
\* self._save_processed_url(pdf_url), right after send_email returned; the
\* run ends according to what send_email did.
PersistState ==
    /\ pc = "persist"
    /\ stages' = Append(stages, "PersistState")
    /\ \E w \in PossibleWrites(store_faults) :
         /\ write_result' = w
         /\ state_file' = SaveProcessedUrl(state_file, pdf_url, w)
    /\ Finish(IF sent THEN "success" ELSE "notify-failed")
    /\ UNCHANGED <<overlap, store_faults, counted, count, retry_watch, config, locator,
                   pdf_url,
                   fetcher, scratch, texts, notify_calls, notify_body, sent, seen,
                   journal>>

\* ==================================================================== spec
Next ==
    \/ StartRun
    \/ DirectProbe
    \/ LoadListing
    \/ ScanLink
    \/ ScanResult
    \/ AltProbe
    \/ CheckIdempotence
    \/ FetchHead
    \/ FetchGet1
    \/ FetchGet2
    \/ Extract
    \/ RemoveScratch
    \/ CheckExtracted
    \/ Condense
    \/ Translate
    \/ DryRunCheck
    \/ Notify
    \/ PersistState

Spec == Init /\ [][Next]_vars

\* The same invocations on a state file whose writes all succeed, with the
\* deliveries of one URL counted: any URL the Locator can return.
Days == BaseDay..(BaseDay + MaxDayOffset)

LocatableUrls ==
    {DirectUrl(t, db) : t \in Days, db \in {d \in 0..(LookbackDays - 1) : Served(d)}}
        \cup {AltUrl(i) : i \in 1..NumAlternativeUrls}
        \cup {HrefUrl(k) : k \in 1..MaxHref}

InitCounting ==
    FirstStart /\ store_faults = FALSE /\ counted \in LocatableUrls /\ retry_watch = FALSE

SpecCounting == InitCounting /\ [][Next]_vars

\* The same invocations, with the URL of an invocation whose Notify failed
\* remembered until the next invocation has located and begun to fetch.
InitRetry ==
    FirstStart /\ store_faults = TRUE /\ counted = NoUrl /\ retry_watch = TRUE

SpecRetry == InitRetry /\ [][Next]_vars

\* ============================================= overlapping invocations
\* Two processes execute run() at the same time on the same working
\* directory.  run() takes no lock and the state file is the only thing the
\* two share, so each process is followed from one access of the shared
\* state file or of the SMTP server to the next; what lies between (the
\* Locator, the scratch file of its own name, the texts) is local to it.

\* run(), lines 518-531: the configuration check and fetch_latest_pdf_url,
\* which returns a URL or None.
OverlapLocate(i) ==
    /\ o_pc[i] = "idle"
    /\ \/ \E u \in LocatableUrls :
            /\ o_url' = [o_url EXCEPT ![i] = u]
            /\ o_pc' = [o_pc EXCEPT ![i] = "located"]
            /\ o_status' = [o_status EXCEPT ![i] = "running"]
       \/ /\ o_pc' = [o_pc EXCEPT ![i] = "done"]
          /\ o_status' = [o_status EXCEPT ![i] = "no-document-found"]
          /\ UNCHANGED o_url
    /\ UNCHANGED <<o_last_url, o_early, o_sent, written>>
    /\ UNCHANGED <<persistent, config, pc, status, stages, locator, pdf_url, fetcher,
                   scratch, texts, notifier, seen, journal>>

\* run(), lines 549-553: the state file is read and compared.
OverlapCheck(i) ==
    /\ o_pc[i] = "located"
    /\ o_last_url' = [o_last_url EXCEPT ![i] = GetLastProcessedUrl(state_file)]
    /\ o_early' = [o_early EXCEPT ![i] = ~written]
    /\ IF AlreadyProcessed(GetLastProcessedUrl(state_file), o_url[i])
       THEN /\ o_pc' = [o_pc EXCEPT ![i] = "done"]
            /\ o_status' = [o_status EXCEPT ![i] = "already-processed"]
       ELSE /\ o_pc' = [o_pc EXCEPT ![i] = "process"]
            /\ UNCHANGED o_status
    /\ UNCHANGED <<o_url, o_sent, written>>
    /\ UNCHANGED <<persistent, config, pc, status, stages, locator, pdf_url, fetcher,
                   scratch, texts, notifier, seen, journal>>

\* run(), lines 555-626: Fetch, Extract, Condense and Translate on the
\* scratch file of this process, then the dry-run check; the process goes on
\* to send_email or run() returns.
OverlapProcess(i) ==
    /\ o_pc[i] = "process"
    /\ \E goes_on \in BOOLEAN :
         IF goes_on
         THEN /\ o_pc' = [o_pc EXCEPT ![i] = "notify"]
              /\ UNCHANGED o_status
         ELSE /\ o_pc' = [o_pc EXCEPT ![i] = "done"]
              /\ o_status' = [o_status EXCEPT ![i] = "stopped"]
    /\ UNCHANGED <<o_url, o_last_url, o_early, o_sent, written>>
    /\ UNCHANGED <<persistent, config, pc, status, stages, locator, pdf_url, fetcher,
                   scratch, texts, notifier, seen, journal>>

\* run(), lines 629-635: send_email returns or raises.
OverlapNotify(i) ==
    /\ o_pc[i] = "notify"
    /\ \E delivered \in BOOLEAN :
         /\ o_sent' = [o_sent EXCEPT ![i] = delivered]
         /\ o_pc' = [o_pc EXCEPT ![i] = IF AfterNotify(delivered) = "persist"
                                        THEN "open" ELSE "done"]
         /\ o_status' = [o_status EXCEPT ![i] = IF AfterNotify(delivered) = "persist"
                                                THEN o_status[i] ELSE "notify-failed"]
    /\ UNCHANGED <<o_url, o_last_url, o_early, written>>
    /\ UNCHANGED <<persistent, config, pc, status, stages, locator, pdf_url, fetcher,
                   scratch, texts, notifier, seen, journal>>

\* _save_processed_url, line 418: open(state_file, 'w') truncates the file,
\* so until json.dump and the close have written the document a reader finds
\* no JSON in it; an open that fails is swallowed and the file is left as it
\* was.
OverlapOpen(i) ==
    /\ o_pc[i] = "open"
    /\ \E w \in PossibleWrites(store_faults) :
         IF w = "open-failed"
         THEN /\ state_file' = SaveProcessedUrl(state_file, o_url[i], "open-failed")
              /\ o_pc' = [o_pc EXCEPT ![i] = "done"]
              /\ o_status' = [o_status EXCEPT ![i] = "success"]
              /\ UNCHANGED written
         ELSE /\ state_file' = SaveProcessedUrl(state_file, o_url[i], "dump-failed")
              /\ o_pc' = [o_pc EXCEPT ![i] = "dump"]
              /\ written' = TRUE
              /\ UNCHANGED o_status
    /\ UNCHANGED <<o_url, o_last_url, o_early, o_sent>>
    /\ UNCHANGED <<store_faults, counted, count, retry_watch, config, pc, status, stages,
                   locator, pdf_url, fetcher, scratch, texts, notifier, seen, journal>>

\* _save_processed_url, lines 419-421: json.dump and the close of the file.
OverlapDump(i) ==
    /\ o_pc[i] = "dump"
    /\ \E w \in PossibleWrites(store_faults) \ {"open-failed"} :
         state_file' = SaveProcessedUrl(state_file, o_url[i], w)
    /\ o_pc' = [o_pc EXCEPT ![i] = "done"]
    /\ o_status' = [o_status EXCEPT ![i] = "success"]
    /\ UNCHANGED <<o_url, o_last_url, o_early, o_sent, written>>
    /\ UNCHANGED <<store_faults, counted, count, retry_watch, config, pc, status, stages,
                   locator, pdf_url, fetcher, scratch, texts, notifier, seen, journal>>

\* Both processes have ended; the next double trigger starts two more.
OverlapAgain ==
    /\ \A i \in Invocations : o_pc[i] = "done"
    /\ o_pc' = [i \in Invocations |-> "idle"]
    /\ o_status' = [i \in Invocations |-> "none"]
    /\ o_url' = [i \in Invocations |-> NoUrl]
    /\ o_last_url' = [i \in Invocations |-> NoUrl]
    /\ o_early' = [i \in Invocations |-> FALSE]
    /\ o_sent' = [i \in Invocations |-> FALSE]
    /\ written' = FALSE
    /\ UNCHANGED <<persistent, config, pc, status, stages, locator, pdf_url, fetcher,
                   scratch, texts, notifier, seen, journal>>

NextOverlap ==
    \/ \E i \in Invocations : OverlapLocate(i)
    \/ \E i \in Invocations : OverlapCheck(i)
    \/ \E i \in Invocations : OverlapProcess(i)
    \/ \E i \in Invocations : OverlapNotify(i)
    \/ \E i \in Invocations : OverlapOpen(i)
    \/ \E i \in Invocations : OverlapDump(i)
    \/ OverlapAgain

SpecOverlap == Init /\ [][NextOverlap]_vars

\* ================================================================== claims
Entered(stage) == \E i \in 1..Len(stages) : stages[i] = stage

RunEnded == pc = "done"

\* ---------------------------------------------------------------------- C1
\* C1: a run that locates the URL persisted as RunState.last_url ends as
\* already-processed before the Fetcher is invoked: no download request, no
\* byte written, no notification, and the state file is left as it was.
C1_Idempotence ==
    (pdf_url # NoUrl /\ pc # "located" /\ run_start_state = StateWith(pdf_url))
        => /\ RunEnded
           /\ status = "already-processed"
           /\ ~Entered("Fetch")
           /\ gets = <<>>
           /\ ~wrote
           /\ ~tmp_exists
           /\ notify_calls = 0
           /\ ~sent
           /\ state_file = run_start_state

C1_Witness ==
    /\ RunEnded
    /\ status = "already-processed"
    /\ run_start_state = StateWith(pdf_url)

\* ---------------------------------------------------------------------- C2
\* C2: across the invocations of a behaviour no URL is the subject of more
\* than one successful delivery (checked for the URL counted, which
\* SpecCounting lets be any URL the Locator can return, with every write of
\* the state file succeeding).
C2_AtMostOneDelivery == count <= 1

\* ---------------------------------------------------------------------- C3
\* C3: the state file is written only after the delivery of the same run
\* succeeded; until then, and in a run whose Notify fails, it is exactly as
\* it was when the run started.
C3_StateAdvanceOnlyOnSuccess ==
    /\ ~sent => (state_file = run_start_state /\ write_result = "none")
    /\ (RunEnded /\ status = "notify-failed")
          => (notify_calls = 1 /\ ~sent /\ state_file = run_start_state)
    /\ Entered("PersistState") => sent

C3_Witness ==
    /\ RunEnded
    /\ status = "notify-failed"
    /\ run_start_state # NoFile
    /\ state_file = run_start_state

CascadeOrder == <<"direct", "listing", "alt">>

C5_CascadeOrdering ==
    /\ Len(strategies) <= 3
    /\ \A i \in 1..Len(strategies) :
         /\ strategies[i].s = CascadeOrder[i]
         /\ strategies[i].found => i = Len(strategies)
    /\ pdf_url.kind = "direct" => Len(strategies) = 1
    /\ pdf_url.kind = "href" => Len(strategies) = 2
    /\ pdf_url # NoUrl => strategies[Len(strategies)].found

C5_Witness ==
    /\ pc = "fetch_head"
    /\ pdf_url.kind = "direct"
    /\ strategies = <<[s |-> "direct", found |-> TRUE]>>

\* ---------------------------------------------------------------------- C6
\* C6: the Locator never raises, and it returns None only after all three
\* strategies were tried and exhausted.
C6_LocatorNeverRaises ==
    /\ status # "locator-raised"
    /\ (RunEnded /\ status = "no-document-found")
          => /\ Len(strategies) = 3
             /\ \A i \in 1..3 : ~strategies[i].found
             /\ probes = LookbackDays

\* ---------------------------------------------------------------------- C7
\* C7: download_pdf returns normally only when its last attempt both declared
\* a PDF and began with %PDF; a first response that fails the validation is
\* followed by exactly one more GET, of the URL with download=1 appended,
\* and a second failure ends the fetch; a fetch issues at most two GETs.
Valid(a) == a.net /\ a.declared /\ a.magic

C7_SignatureValidation ==
    /\ Len(gets) <= 2
    /\ Len(gets) = Len(attempts)
    /\ pc = "extract" => (attempts # <<>> /\ Valid(attempts[Len(attempts)]))
    /\ (attempts # <<>> /\ attempts[1].net /\ ~Valid(attempts[1]))
          => /\ Len(attempts) = 1 => (pc = "get2" /\ gets = <<pdf_url>>)
             /\ Len(attempts) = 2
                   => /\ gets = <<pdf_url, AppendDownloadParam(pdf_url)>>
                      /\ Valid(attempts[2]) => pc = "extract"
                      /\ ~Valid(attempts[2])
                            => (status = "fetch-failed" /\ pc \in {"cleanup", "done"})

C7_Witness ==
    /\ RunEnded
    /\ status = "fetch-failed"
    /\ Len(attempts) = 2
    /\ attempts[1].declared /\ ~attempts[1].magic
    /\ attempts[2].declared /\ ~attempts[2].magic
    /\ gets = <<pdf_url, AppendDownloadParam(pdf_url)>>

\* ---------------------------------------------------------------------- C8
\* C8: when the HEAD of download_pdf declares a size above max_size_bytes the
\* fetch fails with no GET issued and nothing written to the destination.
C8_SizeGuard ==
    (probe.kind = "size" /\ probe.size > MaxBytes)
        => /\ status = "fetch-failed"
           /\ pc \in {"cleanup", "done"}
           /\ gets = <<>>
           /\ ~wrote
           /\ ~Entered("Extract")

C8_Witness ==
    /\ RunEnded
    /\ status = "fetch-failed"
    /\ probe.kind = "size"
    /\ probe.size > MaxBytes
    /\ gets = <<>>

\* ---------------------------------------------------------------------- C9
\* C9: when the Translator raises or is unavailable the run goes on past
\* Translate with the condensed text in place of the translation; it ends at
\* the dry-run check or in Notify, and the body passed to send_email is the
\* untranslated condensed text.
C9_TranslationFallback ==
    translator \in {"raise", "unavailable"}
        => /\ summary_es = summary_en
           /\ Strip(summary_en) # <<>>
           /\ pc \in {"gate", "notify", "persist", "done"}
           /\ RunEnded => status \in {"dry-run", "notify-failed", "success"}
           /\ (RunEnded /\ status = "dry-run") => dry_run
           /\ (pc = "persist" \/ (RunEnded /\ ~dry_run))
                 => (notify_calls = 1 /\ notify_body = summary_en)

C9_Witness ==
    /\ translator = "raise"
    /\ sent
    /\ notify_calls = 1
    /\ notify_body = summary_en
    /\ summary_en # <<>>

\* --------------------------------------------------------------------- C10
\* C10: in a dry run send_email is never called and the state file is never
\* written, and the run reaches the dry-run check through the same six
\* stages as a normal run.
StagesBeforeNotify ==
    <<"Locate", "CheckIdempotence", "Fetch", "Extract", "Condense", "Translate">>

C10_DryRun ==
    /\ dry_run
          => /\ notify_calls = 0
             /\ ~sent
             /\ ~Entered("Notify")
             /\ ~Entered("PersistState")
             /\ write_result = "none"
             /\ state_file = run_start_state
             /\ pc \notin {"notify", "persist"}
    /\ pc = "gate" => stages = StagesBeforeNotify
    /\ (RunEnded /\ status = "dry-run") => (dry_run /\ stages = StagesBeforeNotify)

C10_Witness ==
    /\ RunEnded
    /\ status = "dry-run"
    /\ dry_run
    /\ stages = StagesBeforeNotify
    /\ summary_es # <<>>

\* --------------------------------------------------------------------- C11
\* C11: a direct-guess candidate is accepted exactly when its HEAD answered
\* with status 200, a declared content type of the page or document family
\* and a declared size above MinSize; an accepted candidate is returned
\* without the listing scan being called, and a candidate answered with
\* another status, another type, no size or a size of at most MinSize is
\* passed over and the cascade goes on.
DeclaredSize(o) == IF o.clen.present /\ IsInt(o.clen.v) THEN ParseInt(o.clen.v) ELSE 0

Acceptable(o) ==
    /\ o.net
    /\ o.status = 200
    /\ o.family
    /\ o.clen.present
    /\ IsInt(o.clen.v)
    /\ DeclaredSize(o) > MinSize

Rejectable(o) ==
    /\ o.net
    /\ \/ o.status # 200
       \/ ~o.family
       \/ ~o.clen.present
       \/ (IsInt(o.clen.v) /\ DeclaredSize(o) <= MinSize)

C11_DirectAcceptance ==
    direct_seen # NoHead
        => /\ (pc = "located") <=> Acceptable(direct_seen)
           /\ pc = "located"
                 => /\ pdf_url.kind = "direct"
                    /\ strategies = <<[s |-> "direct", found |-> TRUE]>>
           /\ Rejectable(direct_seen)
                 => /\ pdf_url = NoUrl
                    /\ status = "running"
                    /\ pc \in {"direct", "listing"}

C11_Witness ==
    /\ pc = "located"
    /\ direct_seen.status = 200
    /\ direct_seen.clen = Header(<<"5", "0", "0", "0", "0">>)
    /\ pdf_url.kind = "direct"
    /\ strategies = <<[s |-> "direct", found |-> TRUE]>>

\* --------------------------------------------------------------------- C12
\* C12: no failure of a stage leaves run() as an exception: every invocation
\* returns normally, ended in one of the terminal statuses.
ReturnStatuses ==
    {"config-missing", "no-document-found", "already-processed", "fetch-failed",
     "extraction-empty", "condense-failed", "condensation-empty", "dry-run",
     "notify-failed", "success"}

C12_StageBarrier == RunEnded => status \in ReturnStatuses

\* --------------------------------------------------------------------- C13
\* C13: when an invocation ended because Notify failed for a URL, the next
\* invocation that locates the same URL is not ended as already-processed:
\* it passes CheckIdempotence and download_pdf is called for that URL.
C13_RetryByReinvocation ==
    (retry_url # NoUrl /\ pdf_url = retry_url /\ pc # "located")
        => /\ status # "already-processed"
           /\ Entered("CheckIdempotence")
           /\ pc = "fetch_head" \/ Entered("Fetch")
           /\ GetLastProcessedUrl(run_start_state) # retry_url

C13_Witness ==
    /\ retry_url # NoUrl
    /\ pdf_url = retry_url
    /\ Entered("Fetch")
    /\ run_start_state # NoFile

\* --------------------------------------------------------------------- C14
\* C14: a failed Fetch, an extracted text that is empty or only whitespace,
\* and a Condense that fails or yields an empty summary each end the run at
\* that stage: no later stage is entered, send_email is not called and the
\* state file is neither written nor changed.
Blank(s) == \A i \in 1..Len(s) : s[i] = " "

LastStage == stages[Len(stages)]

NothingDelivered ==
    /\ notify_calls = 0
    /\ ~sent
    /\ ~Entered("Notify")
    /\ ~Entered("PersistState")
    /\ write_result = "none"
    /\ state_file = run_start_state

C14_ShortCircuit ==
    /\ (Len(attempts) = 2 /\ ~Valid(attempts[2])) => status = "fetch-failed"
    /\ status = "fetch-failed"
          => (pc \in {"cleanup", "done"} /\ LastStage = "Fetch" /\ NothingDelivered)
    /\ (Entered("Extract") /\ Blank(text) /\ pc \notin {"cleanup", "check_text"})
          => /\ RunEnded
             /\ status = "extraction-empty"
             /\ LastStage = "Extract"
             /\ NothingDelivered
    /\ (Entered("Condense") /\ Blank(summary_en))
          => /\ RunEnded
             /\ status \in {"condense-failed", "condensation-empty"}
             /\ LastStage = "Condense"
             /\ NothingDelivered

C14_Witness ==
    /\ RunEnded
    /\ status = "extraction-empty"
    /\ text = <<" ">>
    /\ run_start_state # NoFile
    /\ stages = <<"Locate", "CheckIdempotence", "Fetch", "Extract">>

\* --------------------------------------------------------------------- C15
\* C15: a link whose text is not of the series, whose HEAD failed or whose
\* text holds no valid date never joins the candidates, and the listing scan
\* returns a candidate that carries the latest date of all candidates,
\* wherever it stands on the page and whatever its URL; when one URL alone
\* carries the latest date, that URL is returned.
Keys(cands) == {cands[i][1] : i \in 1..Len(cands)}

LatestKey(cands) == CHOOSE k \in Keys(cands) : \A j \in Keys(cands) : j <= k

Latest(cands) == {i \in 1..Len(cands) : cands[i][1] = LatestKey(cands)}

LinkVisited == pc = "links" /\ link_idx' = link_idx + 1

ScanReturns == pc = "links" /\ pc' # "links"

C15_ListingSelection ==
    [][ /\ LinkVisited
             => IF link_seen' = "candidate"
                THEN /\ Len(candidates') = Len(candidates) + 1
                     /\ SubSeq(candidates', 1, Len(candidates)) = candidates
                ELSE candidates' = candidates
        /\ ScanReturns
             => IF candidates = <<>>
                THEN pdf_url' = NoUrl /\ pc' = "alt"
                ELSE /\ pc' = "located"
                     /\ \E i \in Latest(candidates) : pdf_url' = candidates[i][2]
      ]_vars

C15_Witness ==
    /\ pc = "located"
    /\ Len(candidates) = 2
    /\ candidates[1][1] < candidates[2][1]
    /\ candidates[1][2] = HrefUrl(2)
    /\ pdf_url = HrefUrl(1)
    /\ pdf_url = candidates[2][2]

\* --------------------------------------------------------------------- C16
\* C16 as claimed: candidates whose dates tie are left out of the ranking, so
\* the link returned is never one of several candidates that share the
\* latest date.
C16_TiesExcluded ==
    (pc = "located" /\ pdf_url.kind = "href") => Cardinality(Latest(candidates)) = 1

\* C16 as amended: a link whose date cannot be parsed never joins the
\* candidates; candidates whose dates tie are all ranked, and of several
\* candidates that share the latest date the first on the page is returned.
FirstLatest(cands) == CHOOSE i \in Latest(cands) : \A j \in Latest(cands) : i <= j

C16_TiesKeepFirst ==
    [][ /\ (LinkVisited /\ link_seen' = "no-date") => candidates' = candidates
        /\ (ScanReturns /\ candidates # <<>>)
             => pdf_url' = candidates[FirstLatest(candidates)][2]
      ]_vars

C16_Witness ==
    /\ pc = "located"
    /\ Len(candidates) = 2
    /\ candidates[1][1] = candidates[2][1]
    /\ candidates[1][2] # candidates[2][2]
    /\ pdf_url = candidates[1][2]

\* --------------------------------------------------------------------- C17
\* C17: an invocation whose URL came from the fallback list has logged a
\* record of level WARNING or above by the time it ends.
C17_FallbackWarns == (RunEnded /\ pdf_url.kind = "alt") => warned

\* --------------------------------------------------------------------- C18
\* C18 as claimed: a network-level failure of the first GET of download_pdf
\* is terminal: the fetch fails and no second GET is issued.
C18_NetworkFailureTerminal ==
    (attempts # <<>> /\ ~attempts[1].net)
        => (Len(gets) = 1 /\ status = "fetch-failed")

\* C18 as amended: the download=1 retry is issued once after a first attempt
\* that failed, whether its response failed the validation or the request
\* itself failed at network level, and never after a first attempt that was
\* valid; a network-level failure of the retry is terminal and no third GET
\* is issued.
C18_RetryAfterAnyFailure ==
    /\ Len(gets) <= 2
    /\ Len(gets) = 2 => (Len(attempts) = 2 /\ ~Valid(attempts[1]))
    /\ (attempts # <<>> /\ ~attempts[1].net)
          => /\ Len(attempts) = 1 => (pc = "get2" /\ status = "running")
             /\ Len(attempts) = 2 => gets = <<pdf_url, AppendDownloadParam(pdf_url)>>
    /\ (Len(attempts) = 2 /\ ~attempts[2].net)
          => (status = "fetch-failed" /\ pc \in {"cleanup", "done"})

C18_Witness ==
    /\ pc = "extract"
    /\ Len(attempts) = 2
    /\ ~attempts[1].net
    /\ Valid(attempts[2])
    /\ gets = <<pdf_url, AppendDownloadParam(pdf_url)>>

\* --------------------------------------------------------------------- C19
\* C19: in a run that got its scratch file, os.remove is attempted at least
\* once and at most RemoveTries times, after Extract ended or the fetch
\* failed and before Condense starts or the run ends; the attempts stop at
\* the first that succeeds, and after a successful attempt the file is gone
\* for the rest of the run.
C19_ScratchRelease ==
    /\ rm_tries <= RemoveTries
    /\ pc \in {"fetch_head", "get1", "get2", "extract"} => (tmp_exists /\ rm_tries = 0)
    /\ rm_tries > 0 => (Entered("Extract") \/ status = "fetch-failed")
    /\ (Entered("Fetch") /\ pc \notin {"get1", "get2", "extract", "cleanup"})
          => rm_tries >= 1
    /\ Entered("Condense") => rm_tries >= 1
    /\ (pc = "cleanup" /\ rm_tries > 0) => tmp_exists
    /\ (pc # "cleanup" /\ rm_tries > 0 /\ tmp_exists) => rm_tries = RemoveTries

C19_Witness ==
    /\ RunEnded
    /\ status = "fetch-failed"
    /\ rm_tries = 2
    /\ ~tmp_exists

\* --------------------------------------------------------------------- C20
\* C20: the direct guess probes only the candidates of the LookbackDays days
\* that end today (the current week number and at most five before it), one
\* probe per candidate; it issues no probe after the candidate it accepts,
\* and it returns None after exactly LookbackDays probes, none of them
\* accepted.
C20_BoundedProbing ==
    /\ probes <= LookbackDays
    /\ pc = "direct" => (probes = days_back /\ days_back < LookbackDays)
    /\ pdf_url.kind = "direct"
          => /\ today - pdf_url.date \in 0..(LookbackDays - 1)
             /\ IsoWeek(today) - pdf_url.week \in 0..5
             /\ probes = (today - pdf_url.date) + 1
    /\ Len(strategies) >= 2 => (probes = LookbackDays /\ ~strategies[1].found)

C20_Witness ==
    /\ Entered("Fetch")
    /\ pdf_url.kind = "direct"
    /\ probes = LookbackDays
    /\ today - pdf_url.date = LookbackDays - 1

\* --------------------------------------------------------------------- C21
\* C21: whenever the HEAD of download_pdf did not report a size above
\* max_size_bytes (the request failed, no size was declared, or what was
\* declared is no usable size), download_pdf goes on to its first GET and
\* the fetch has not failed.
C21_ProbeNonFatal ==
    (probe # NoProbe /\ ~(probe.kind = "size" /\ probe.size > MaxBytes))
        => (pc = "get1" /\ status = "running")

\* --------------------------------------------------------------------- C22
\* C22: nothing guards overlapping invocations.  Each invocation is ended as
\* already-processed exactly when the last_url it read itself equals its own
\* URL, whatever the other invocation has located, sent or is writing; so
\* when both read the state file before either opened it for writing and
\* both located the same URL, which the file did not hold, neither is
\* stopped by the check, and each send_email that succeeds is one more
\* notification for that URL.  C22_Witness is the interleaving of the claim.
Checked(i) == o_pc[i] \notin {"idle", "located"} /\ o_url[i] # NoUrl

BothReadBeforeWrite == \A i \in Invocations : Checked(i) /\ o_early[i]

SameNewUrl ==
    /\ \A i, j \in Invocations : o_url[i] = o_url[j]
    /\ \A i \in Invocations : o_last_url[i] # o_url[i]

Notifications(u) == Cardinality({i \in Invocations : o_sent[i] /\ o_url[i] = u})

C22_OverlapUnguarded ==
    /\ \A i \in Invocations :
         /\ o_status[i] = "already-processed"
               <=> (Checked(i) /\ o_last_url[i] = o_url[i])
         /\ o_sent[i] => (Checked(i) /\ o_last_url[i] # o_url[i])
    /\ (BothReadBeforeWrite /\ SameNewUrl)
          => /\ \A i \in Invocations : o_status[i] # "already-processed"
             /\ \A i \in Invocations :
                  o_status[i] = "success" => Notifications(o_url[i]) >= 1
             /\ (\A i \in Invocations : o_status[i] = "success")
                   => \A i \in Invocations :
                        Notifications(o_url[i]) = Cardinality(Invocations)

C22_Witness ==
    /\ BothReadBeforeWrite
    /\ SameNewUrl
    /\ \A i \in Invocations : o_status[i] = "success" /\ o_sent[i]
    /\ \A i \in Invocations : o_last_url[i] # NoUrl
    /\ written
    /\ \A i \in Invocations : state_file = StateWith(o_url[i])
    /\ \A i \in Invocations : Notifications(o_url[i]) = Cardinality(Invocations)

\* --------------------------------------------------------------------- C23
\* C23: the week number in the URL of every candidate of the direct guess,
\* the one about to be probed and the one accepted, is at least 1 and is the
\* ISO week number of the date in the same URL.
WeekMatchesDate(u) == u.week >= 1 /\ u.week = IsoWeek(u.date)

C23_WeekMatchesDate ==
    /\ pc = "direct" => WeekMatchesDate(DirectUrl(today, days_back))
    /\ pdf_url.kind = "direct" => WeekMatchesDate(pdf_url)

\* --------------------------------------------------------------------- C24
\* C24: when the SMTP server, the sender address or the receiver address is
\* not set, run() returns before Locate, with the dry-run flag set or not:
\* no strategy is called and no request issued, no scratch file is made,
\* download_pdf and send_email are not called, and the state file is neither
\* read for the idempotence check nor written.
SomethingMissing ==
    ~configured.smtp_server \/ ~configured.sender_email \/ ~configured.receiver_email

C24_ConfigGate ==
    SomethingMissing
        => /\ RunEnded
           /\ status = "config-missing"
           /\ stages = <<>>
           /\ strategies = <<>>
           /\ probes = 0 /\ link_idx = 0 /\ alt_idx = 0
           /\ direct_seen = NoHead
           /\ pdf_url = NoUrl
           /\ probe = NoProbe /\ gets = <<>> /\ ~wrote /\ ~tmp_exists
           /\ notify_calls = 0 /\ ~sent
           /\ write_result = "none"
           /\ state_file = run_start_state

C24_Witness ==
    /\ RunEnded
    /\ status = "config-missing"
    /\ configured.smtp_server /\ configured.sender_email /\ ~configured.receiver_email
    /\ ~dry_run
    /\ run_start_state # NoFile

\* --------------------------------------------------------------------- C25
\* C25: whenever send_email has been called, the body passed to it is not
\* empty and is the Translator's output or the condensed text, whatever the
\* Translator did (a string, an empty string, None, an exception).
C25_BodyNonEmpty ==
    notify_calls > 0
        => /\ notify_body # <<>>
           /\ \/ notify_body = summary_en
              \/ (translator = "str" /\ notify_body = summary_es)


====
